---- MODULE Spec2Model ----
(***************************************************************************)
(* State-machine model of msise00/base.py: the entry point run, the grid   *)
(* loop loopalt_gtd, the point evaluator rungtd1d and the time coercion    *)
(* todatetime.  The external collaborators (geomagindices.getApF107, the   *)
(* msise00_driver executable, numpy, xarray.merge) are modelled by what    *)
(* the call sites rely on: the index provider and the point model are      *)
(* uninterpreted deterministic functions of their arguments that may also  *)
(* fail; numpy scalars carry their dtype; xarray.merge is an outer join    *)
(* with compat="no_conflicts".                                            *)
(*                                                                         *)
(* Python indices are 0-based; sequences here are 1-based, so the array    *)
(* index [0, k, 0, 0] of the source is <<1, k+1, 1, 1>> in the model.      *)
(***************************************************************************)
EXTENDS Integers, Sequences, FiniteSets, TLC

\* ------------------------------------------------------------------ bounds
\* longest altitude sequence, longest time list, largest grid of the inputs
MaxAlt == 2
MaxTimes == 2
MaxRows == 2
MaxCols == 2

\* ------------------------------------------------------- module constants
species == <<"He", "O", "N2", "O2", "Ar", "Total", "H", "N", "AnomalousO">>
ttypes == <<"Texo", "Tn">>

Range(s) == {s[n] : n \in DOMAIN s}

\* ------------------------------------------------------------ time values
\* A time-like Python value: kind names its type, date is the calendar day
\* (day of year), tod the seconds since midnight, unit the datetime64 unit.
\* A list/tuple/ndarray is [kind |-> "list", items |-> <<...>>].
TimeVal(kind, unit, d, tod) == [kind |-> kind, unit |-> unit, date |-> d, tod |-> tod]

Datetime(d, tod) == TimeVal("datetime", "", d, tod)

TypeError == TimeVal("TypeError", "", 0, 0)

\* dateutil.parser.parse of a date string: a datetime; a string without a
\* time of day gives midnight (tod = 0 in the string's value).
parse(time) == Datetime(time.date, time.tod)

\* numpy.datetime64.astype(datetime): a date for day units, a datetime for
\* sub-day units down to microseconds, an int for nanoseconds.
astype(time) ==
    IF time.unit = "D" THEN TimeVal("date", "", time.date, 0)
    ELSE IF time.unit = "ns" THEN TimeVal("int", "", 0, 0)
    ELSE Datetime(time.date, time.tod)

RECURSIVE todatetime(_)
todatetime(time) ==
    LET dtime ==
            IF time.kind = "str" THEN parse(time)
            ELSE IF time.kind = "datetime" THEN time
            ELSE IF time.kind = "datetime64" THEN astype(time)
            ELSE IF time.kind = "list"
            THEN IF Len(time.items) = 1
                 THEN todatetime(time.items[1])
                 ELSE IF \E n \in DOMAIN time.items :
                            todatetime(time.items[n]).kind = "TypeError"
                      THEN TypeError
                      ELSE [kind |-> "list",
                            items |-> [n \in DOMAIN time.items |->
                                          todatetime(time.items[n])]]
            ELSE TypeError
    IN  IF dtime.kind = "date" THEN Datetime(dtime.date, 0) ELSE dtime

\* isinstance(time, (str, date, datetime, np.datetime64)) of run
IsTimeLike(time) == time.kind \in {"str", "date", "datetime", "datetime64"}

\* np.atleast_1d(time) of loopalt_gtd, as the sequence the loop iterates
atleast_1d_time(time) == IF time.kind = "list" THEN time.items ELSE <<time>>

\* ------------------------------------------------------- numeric arrays
\* A latitude/longitude input: ndim dimensions, a dtype, and its elements
\* as a matrix (a scalar and a nested single element hold one element).
\* np.atleast_2d raises the dimension to 2 and makes the elements numpy
\* scalars; an array of 3 dimensions stays as it is.
NumpyType(dtype) ==
    IF dtype = "int" THEN "int64" ELSE IF dtype = "float" THEN "float64" ELSE dtype

atleast_2d(g) ==
    [ndim |-> IF g.ndim < 2 THEN 2 ELSE g.ndim,
     dtype |-> NumpyType(g.dtype),
     rows |-> g.rows]

NRows(g) == Len(g.rows)
NCols(g) == Len(g.rows[1])
Size(g) == NRows(g) * NCols(g)

\* g[i, j] with Python's 0-based i, j: a numpy scalar of the array's dtype
Elem(g, i, j) == [dtype |-> g.dtype, v |-> g.rows[i + 1][j + 1]]

\* g.squeeze()[()] of an array of one element
SqueezeItem(g) == Elem(g, 0, 0)

\* isinstance(x, (int, float)): Python's own int and float, and numpy's
\* float64, which subclasses float; numpy's int64 subclasses neither
IsIntOrFloat(x) == x.dtype \in {"int", "float", "float64"}

\* An altitude input: ndim 0 is a scalar; np.atleast_1d makes it 1-D
atleast_1d_alt(altkm) ==
    [ndim |-> IF altkm.ndim < 1 THEN 1 ELSE altkm.ndim, data |-> altkm.data]

\* --------------------------------------------------- external functions
\* gi.getApF107(time, smoothdays=81): uninterpreted values per instant
getApF107(time) ==
    [f107s |-> <<"f107s", time>>, f107 |-> <<"f107", time>>, Ap |-> <<"Ap", time>>]

\* The argument vector of one msise00_driver invocation
\* (str() of a number is modelled by the number the driver reads back)
\* Faulty variant: the daily flux in the second flux slot
DriverArgs_DailyFlux(time, glat, glon, f107Ap, a) ==
    <<time.date, time.tod \div 3600, (time.tod % 3600) \div 60, time.tod % 60,
      glat.v, glon.v, f107Ap.f107s, f107Ap.f107, f107Ap.Ap, a>>

DriverArgs(time, glat, glon, f107Ap, a) ==
    <<time.date, time.tod \div 3600, (time.tod % 3600) \div 60, time.tod % 60,
      glat.v, glon.v, f107Ap.f107s, f107Ap.f107s, f107Ap.Ap, a>>

\* The driver's two output records for an argument vector: uninterpreted
\* values, one per position
DensityLine(args) == [p \in 1..Len(species) |-> <<1, p, args>>]
TemperatureLine(args) == [p \in 1..Len(ttypes) |-> <<2, p, args>>]

\* dens[i, :] = np.genfromtxt(f, max_rows=1): a record of the row's length
\* is stored, a single value is broadcast, anything else is a ValueError
CanAssignRow(rec, n) == Len(rec) = n \/ Len(rec) = 1
AssignRow(rec, n) == IF Len(rec) = n THEN rec ELSE [p \in 1..n |-> rec[1]]

\* ------------------------------------------------------------ datasets
\* An xarray.Dataset: data maps each variable name to its cells, a function
\* of <<time, alt_km, lat, lon>> positions; coords maps each dimension to
\* its coordinate values; attrs is a record, <<>> when there are none.
VarNames == Range(species) \cup Range(ttypes)
dims == <<"time", "alt_km", "lat", "lon">>
NaN == <<>>
EmptyDataset == [data |-> <<>>, coords |-> <<>>, attrs |-> <<>>]

Position(seq, name) == CHOOSE p \in DOMAIN seq : seq[p] = name

\* zip(species, dens.T): the species at position p gets column p of dens
SpeciesColumn(dens, name) == [a \in DOMAIN dens |-> dens[a][Position(species, name)]]
\* temp[:, 0] is Texo and temp[:, 1] is Tn (0-based columns)
TexoColumn(temp) == [a \in DOMAIN temp |-> temp[a][1]]
\* Faulty variant: Tn read from the first temperature column
TnColumn_First(temp) == [a \in DOMAIN temp |-> temp[a][1]]
TnColumn(temp) == [a \in DOMAIN temp |-> temp[a][2]]

\* v[None, :, None, None]: a column as a (1, N, 1, 1) array
Expand(col) == [ix \in {<<1, a, 1, 1>> : a \in DOMAIN col} |-> col[ix[2]]]

FragmentCoords(time, altkm, glat, glon) ==
    [time |-> <<time>>, alt_km |-> altkm.data, lat |-> <<glat.v>>, lon |-> <<glon.v>>]

FragmentAttrs(f107Ap) ==
    [Ap |-> f107Ap.Ap, f107 |-> f107Ap.f107, f107a |-> f107Ap.f107s,
     species |-> species]

\* The dataset rungtd1d builds from the filled dens and temp matrices
Fragment(time, altkm, glat, glon, dens, temp, f107Ap) ==
    [data |-> [name \in VarNames |->
                  IF name \in Range(species) THEN Expand(SpeciesColumn(dens, name))
                  ELSE IF name = "Tn" THEN Expand(TnColumn(temp))
                  ELSE Expand(TexoColumn(temp))],
     coords |-> FragmentCoords(time, altkm, glat, glon),
     attrs |-> FragmentAttrs(f107Ap)]

\* ----------------------------------------------------------- xarray.merge
\* The order of coordinate values: instants by date and time of day,
\* numbers by value
Key(d, v) == IF d = "time" THEN v.date * 86400 + v.tod ELSE v

RECURSIVE SortSet(_, _)
SortSet(d, S) ==
    IF S = {} THEN <<>>
    ELSE LET m == CHOOSE x \in S : \A y \in S : Key(d, x) <= Key(d, y)
         IN  <<m>> \o SortSet(d, S \ {m})

\* The outer join of two indexes: equal indexes are kept as they are,
\* different ones give their sorted union
\* Faulty variant: indexes concatenated instead of joined
JoinIndex_Concat(d, a, b) == a \o b

JoinIndex(d, a, b) == IF a = b THEN a ELSE SortSet(d, Range(a) \cup Range(b))

JoinCoords(a, b) ==
    [d \in DOMAIN a \cup DOMAIN b |->
        IF d \notin DOMAIN a THEN b[d]
        ELSE IF d \notin DOMAIN b THEN a[d]
        ELSE JoinIndex(d, a[d], b[d])]

\* Position in index old of the label that index new holds at position n,
\* 0 when old lacks it (reindexing; equal indexes need none)
OldPos(old, new, n) ==
    IF old = new THEN n
    ELSE IF \E m \in DOMAIN old : old[m] = new[n]
         THEN CHOOSE m \in DOMAIN old : old[m] = new[n]
         ELSE 0

\* The cell of variable name that dataset ds holds for position ix of the
\* joined coordinates, NaN when ds has no such variable or label
Reindexed(ds, name, coords, ix) ==
    IF name \notin DOMAIN ds.data THEN NaN
    ELSE LET old == [n \in DOMAIN dims |->
                        OldPos(ds.coords[dims[n]], coords[dims[n]], ix[n])]
         IN  IF \E n \in DOMAIN dims : old[n] = 0 THEN NaN
             ELSE ds.data[name][old]

Cells(coords) ==
    {<<t, a, la, lo>> : t \in DOMAIN coords.time, a \in DOMAIN coords.alt_km,
                        la \in DOMAIN coords.lat, lo \in DOMAIN coords.lon}

\* compat="no_conflicts": a cell both datasets hold must hold equal values
MergeConflict(a, b) ==
    LET coords == JoinCoords(a.coords, b.coords)
    IN  \E name \in DOMAIN a.data \cap DOMAIN b.data : \E ix \in Cells(coords) :
            /\ Reindexed(a, name, coords, ix) # NaN
            /\ Reindexed(b, name, coords, ix) # NaN
            /\ Reindexed(a, name, coords, ix) # Reindexed(b, name, coords, ix)

\* out.fillna(other), cell by cell
FillNa(x, y) == IF x # NaN THEN x ELSE y

\* xarray.merge((a, b)) when no cell conflicts; the result has no attrs
Merge(a, b) ==
    LET coords == JoinCoords(a.coords, b.coords)
    IN  [data |-> [name \in DOMAIN a.data \cup DOMAIN b.data |->
                      [ix \in Cells(coords) |->
                          FillNa(Reindexed(a, name, coords, ix),
                                 Reindexed(b, name, coords, ix))]],
         coords |-> coords,
         attrs |-> <<>>]

\* ------------------------------------------------------------------ state
VARIABLES
    entry,      \* the function the caller invoked: "run", "rungtd1d", "loopalt_gtd"
    args,       \* its arguments [time, altkm, glat, glon]
    pc,         \* the statement about to execute
    path,       \* the branch run took: "fast", "grid", or "" before/without run
    loc,        \* loopalt_gtd's locals [glat, glon, times, k, i, j]
    ev,         \* rungtd1d's locals [time, altkm, glat, glon, dtime, f107Ap, dens, temp]
    atm,        \* loopalt_gtd's atm: [bound, ds]
    atmos,      \* loopalt_gtd's accumulating dataset
    calls,      \* external calls of the current rungtd1d invocation, in order
    ncalls,     \* external calls made since the caller's invocation
    failure,    \* the outcome of the first external call that failed, "" if none
    evals,      \* rungtd1d invocations [time, glat, glon, altkm] loopalt_gtd made
    merged,     \* <<time, lat, lon>> of the fragments merged, in merge order
    result,     \* [status, error, ds]: what the invocation gave its caller
    fast        \* the result of the fast path, kept for the grid-path rerun

vars == <<entry, args, pc, path, loc, ev, atm, atmos, calls, ncalls, failure,
          evals, merged, result, fast>>

NoResult == [status |-> "none", error |-> "", ds |-> EmptyDataset]
Returned(ds) == [status |-> "returned", error |-> "", ds |-> ds]
Raised(e) == [status |-> "raised", error |-> e, ds |-> EmptyDataset]

NoLoc == [glat |-> <<>>, glon |-> <<>>, times |-> <<>>, k |-> 0, i |-> 0, j |-> 0]
NoEv == [time |-> <<>>, altkm |-> <<>>, glat |-> <<>>, glon |-> <<>>,
         dtime |-> <<>>, f107Ap |-> <<>>, dens |-> <<>>, temp |-> <<>>]
Unbound == [bound |-> FALSE, ds |-> EmptyDataset]

\* rungtd1d's frame on entry
Frame(time, altkm, glat, glon) ==
    [time |-> time, altkm |-> altkm, glat |-> glat, glon |-> glon,
     dtime |-> <<>>, f107Ap |-> <<>>, dens |-> <<>>, temp |-> <<>>]

\* An exception propagates to the caller: nothing is caught anywhere
Raise(e) ==
    /\ pc' = "raised"
    /\ result' = Raised(e)

\* ---------------------------------------------------------------- run
\* run, lines 34-41: coerce latitude and longitude, then dispatch
\* Faulty variant: the time's type is not looked at
FastPath_AnyTime(glat, glon, time) == Size(glat) = 1 /\ Size(glon) = 1

FastPath(glat, glon, time) == Size(glat) = 1 /\ Size(glon) = 1 /\ IsTimeLike(time)

run ==
    /\ pc = "run"
    /\ LET glat == atleast_2d(args.glat)
           glon == atleast_2d(args.glon)
       IN  IF FastPath(glat, glon, args.time)
           THEN /\ path' = "fast"
                /\ pc' = "rungtd1d"
                /\ ev' = Frame(args.time, args.altkm, SqueezeItem(glat), SqueezeItem(glon))
                /\ loc' = loc
           ELSE /\ path' = "grid"
                /\ pc' = "loopalt_gtd"
                /\ loc' = [loc EXCEPT !.glat = glat, !.glon = glon]
                /\ ev' = ev
    /\ UNCHANGED <<entry, args, atm, atmos, calls, ncalls, failure, evals, merged,
                   result, fast>>

\* ------------------------------------------------------------ loopalt_gtd
\* lines 57-64: coerce again, assert the dimensions, make the time axis
loopalt_gtd ==
    /\ pc = "loopalt_gtd"
    /\ LET glat == atleast_2d(loc.glat)
           glon == atleast_2d(loc.glon)
       IN  IF glat.ndim = 2 /\ glon.ndim = 2
           THEN /\ loc' = [glat |-> glat, glon |-> glon,
                           times |-> atleast_1d_time(args.time),
                           k |-> 0, i |-> 0, j |-> 0]
                /\ atmos' = EmptyDataset
                /\ pc' = "loop"
                /\ result' = result
           ELSE /\ Raise("AssertionError")
                /\ UNCHANGED <<loc, atmos>>
    /\ UNCHANGED <<entry, args, path, ev, atm, calls, ncalls, failure, evals,
                   merged, fast>>

\* The loops run over glat's shape alone
LoopDone == loc.k >= Len(loc.times)

\* glon[i, j] exists
InBounds(g, i, j) == i < NRows(g) /\ j < NCols(g)

\* lines 66-72: the next (k, i, j); evaluating glon[i, j] may raise
\* IndexError; otherwise rungtd1d is called
loop_call ==
    /\ pc = "loop"
    /\ ~LoopDone
    /\ IF InBounds(loc.glon, loc.i, loc.j)
       THEN /\ ev' = Frame(loc.times[loc.k + 1], args.altkm,
                           Elem(loc.glat, loc.i, loc.j), Elem(loc.glon, loc.i, loc.j))
            /\ evals' = Append(evals, [time |-> loc.times[loc.k + 1],
                                       glat |-> loc.glat.rows[loc.i + 1][loc.j + 1],
                                       glon |-> loc.glon.rows[loc.i + 1][loc.j + 1],
                                       altkm |-> args.altkm])
            /\ pc' = "rungtd1d"
            /\ result' = result
       ELSE /\ Raise("IndexError")
            /\ UNCHANGED <<ev, evals>>
    /\ UNCHANGED <<entry, args, path, loc, atm, atmos, calls, ncalls, failure,
                   merged, fast>>

\* The loop variables after the body at (k, i, j)
\* Faulty variant: the row loop innermost
Advance_ColumnMajor(l) ==
    IF l.i + 1 < NRows(l.glat) THEN [l EXCEPT !.i = l.i + 1]
    ELSE IF l.j + 1 < NCols(l.glat) THEN [l EXCEPT !.j = l.j + 1, !.i = 0]
    ELSE [l EXCEPT !.k = l.k + 1, !.i = 0, !.j = 0]

Advance(l) ==
    IF l.j + 1 < NCols(l.glat) THEN [l EXCEPT !.j = l.j + 1]
    ELSE IF l.i + 1 < NRows(l.glat) THEN [l EXCEPT !.i = l.i + 1, !.j = 0]
    ELSE [l EXCEPT !.k = l.k + 1, !.i = 0, !.j = 0]

FragmentKey(ds) == <<ds.coords.time[1], ds.coords.lat[1], ds.coords.lon[1]>>

\* line 73: atmos = xarray.merge((atmos, atm))
loop_merge ==
    /\ pc = "merge"
    /\ IF MergeConflict(atmos, atm.ds)
       THEN /\ Raise("MergeError")
            /\ UNCHANGED <<atmos, merged, loc>>
       ELSE /\ atmos' = Merge(atmos, atm.ds)
            /\ merged' = Append(merged, FragmentKey(atm.ds))
            /\ loc' = Advance(loc)
            /\ pc' = "loop"
            /\ result' = result
    /\ UNCHANGED <<entry, args, path, ev, atm, calls, ncalls, failure, evals, fast>>

\* lines 75-77: the accumulated dataset with the last fragment's attrs
\* Faulty variant: the attrs are not copied
LoopResult_NoAttrs(acc, last) == acc

LoopResult(acc, last) == [acc EXCEPT !.attrs = last.attrs]

\* lines 75-77: atm is unbound when the loop body never ran
loop_exit ==
    /\ pc = "loop"
    /\ LoopDone
    /\ IF atm.bound
       THEN /\ pc' = "returned"
            /\ result' = Returned(LoopResult(atmos, atm.ds))
       ELSE Raise("UnboundLocalError")
    /\ UNCHANGED <<entry, args, path, loc, ev, atm, atmos, calls, ncalls, failure,
                   evals, merged, fast>>

\* --------------------------------------------------------------- rungtd1d
\* rungtd1d was called from loopalt_gtd's loop (not by run, not directly)
InLoop == entry = "loopalt_gtd" \/ path = "grid"

\* line 86: time = todatetime(time)
rungtd1d ==
    /\ pc = "rungtd1d"
    /\ calls' = <<>>
    /\ LET dtime == todatetime(ev.time)
       IN  IF dtime.kind = "TypeError"
           THEN /\ Raise("TypeError")
                /\ ev' = ev
           ELSE /\ ev' = [ev EXCEPT !.dtime = dtime]
                /\ pc' = "getApF107"
                /\ result' = result
    /\ UNCHANGED <<entry, args, path, loc, atm, atmos, ncalls, failure, evals,
                   merged, fast>>

Call(fn, a, outcome) == [fn |-> fn, args |-> a, outcome |-> outcome]

\* line 88, the provider failing: its error propagates
getApF107_raises ==
    /\ pc = "getApF107"
    /\ calls' = Append(calls, Call("getApF107", <<ev.dtime>>, "error"))
    /\ ncalls' = ncalls + 1
    /\ failure' = IF failure = "" THEN "getApF107" ELSE failure
    /\ Raise("ProviderError")
    /\ UNCHANGED <<entry, args, path, loc, ev, atm, atmos, evals, merged, fast>>

\* lines 88-103, the provider answering: the driving parameters, the
\* altitude axis, the assertions, the day of year (strftime needs a
\* datetime), the empty matrices
getApF107_returns ==
    /\ pc = "getApF107"
    /\ calls' = Append(calls, Call("getApF107", <<ev.dtime>>, "ok"))
    /\ ncalls' = ncalls + 1
    /\ LET altkm == atleast_1d_alt(ev.altkm)
       IN  IF altkm.ndim # 1 \/ ~IsIntOrFloat(ev.glon) \/ ~IsIntOrFloat(ev.glat)
           THEN /\ Raise("AssertionError")
                /\ ev' = ev
           ELSE IF ev.dtime.kind # "datetime"
           THEN /\ Raise("AttributeError")
                /\ ev' = ev
           ELSE /\ ev' = [ev EXCEPT !.f107Ap = getApF107(ev.dtime), !.altkm = altkm,
                                    !.dens = <<>>, !.temp = <<>>]
                /\ pc' = "driver"
                /\ result' = result
    /\ UNCHANGED <<entry, args, path, loc, atm, atmos, failure, evals, merged, fast>>

\* The arguments of the driver invocation for the next altitude
NextArgs ==
    DriverArgs(ev.dtime, ev.glat, ev.glon, ev.f107Ap, ev.altkm.data[Len(ev.dens) + 1])

MoreAltitudes == Len(ev.dens) < Len(ev.altkm.data)

\* Faulty variant: the failed invocation is swallowed and made again
driver_exits_retried ==
    /\ pc = "driver"
    /\ MoreAltitudes
    /\ calls' = Append(calls, Call("driver", NextArgs, "exit"))
    /\ ncalls' = ncalls + 1
    /\ failure' = IF failure = "" THEN "exit" ELSE failure
    /\ UNCHANGED <<entry, args, pc, path, loc, ev, atm, atmos, evals, merged, result,
                   fast>>

\* lines 105-110, the driver exiting non-zero: check_output raises
driver_exits ==
    /\ pc = "driver"
    /\ MoreAltitudes
    /\ calls' = Append(calls, Call("driver", NextArgs, "exit"))
    /\ ncalls' = ncalls + 1
    /\ failure' = IF failure = "" THEN "exit" ELSE failure
    /\ Raise("CalledProcessError")
    /\ UNCHANGED <<entry, args, path, loc, ev, atm, atmos, evals, merged, fast>>

\* What the driver may print: its two records, or a density record one
\* value short
DriverOutputs(a) ==
    {<<DensityLine(a), TemperatureLine(a)>>,
     <<SubSeq(DensityLine(a), 1, Len(species) - 1), TemperatureLine(a)>>}

WellFormed(out) == Len(out[1]) = Len(species) /\ Len(out[2]) = Len(ttypes)

\* lines 105-113, the driver printing out: both records are parsed into
\* row i of dens and temp; a record that does not fit raises ValueError
driver_prints ==
    /\ pc = "driver"
    /\ MoreAltitudes
    /\ \E out \in DriverOutputs(NextArgs) :
        /\ calls' = Append(calls, Call("driver", NextArgs, "output"))
        /\ failure' = IF failure = "" /\ ~WellFormed(out) THEN "malformed" ELSE failure
        /\ IF CanAssignRow(out[1], Len(species)) /\ CanAssignRow(out[2], Len(ttypes))
           THEN /\ ev' = [ev EXCEPT
                            !.dens = Append(@, AssignRow(out[1], Len(species))),
                            !.temp = Append(@, AssignRow(out[2], Len(ttypes)))]
                /\ UNCHANGED <<pc, result>>
           ELSE /\ Raise("ValueError")
                /\ ev' = ev
    /\ ncalls' = ncalls + 1
    /\ UNCHANGED <<entry, args, path, loc, atm, atmos, evals, merged, fast>>

\* lines 115-124: package the matrices and return to the caller
rungtd1d_return ==
    /\ pc = "driver"
    /\ ~MoreAltitudes
    /\ LET ds == Fragment(ev.dtime, ev.altkm, ev.glat, ev.glon, ev.dens, ev.temp,
                          ev.f107Ap)
       IN  IF InLoop
           THEN /\ atm' = [bound |-> TRUE, ds |-> ds]
                /\ pc' = "merge"
                /\ result' = result
           ELSE /\ pc' = "returned"
                /\ result' = Returned(ds)
                /\ atm' = atm
    /\ UNCHANGED <<entry, args, path, loc, ev, atmos, calls, ncalls, failure, evals,
                   merged, fast>>

\* ------------------------------------------------------------ the callers
\* After a fast-path run, the caller repeats the query through loopalt_gtd
\* with the element as 1x1 grids and the instant as a sequence of length 1
Grid1x1(x) == [ndim |-> 2, dtype |-> x.dtype, rows |-> <<<<x.v>>>>]

rerun_grid ==
    /\ pc \in {"returned", "raised"}
    /\ entry = "run"
    /\ path = "fast"
    /\ failure = ""
    /\ fast' = result
    /\ entry' = "loopalt_gtd"
    /\ path' = ""
    /\ args' = [time |-> [kind |-> "list", items |-> <<args.time>>],
                altkm |-> args.altkm,
                glat |-> Grid1x1(SqueezeItem(atleast_2d(args.glat))),
                glon |-> Grid1x1(SqueezeItem(atleast_2d(args.glon)))]
    /\ loc' = [NoLoc EXCEPT !.glat = args'.glat, !.glon = args'.glon]
    /\ pc' = "loopalt_gtd"
    /\ ev' = NoEv
    /\ atm' = Unbound
    /\ atmos' = EmptyDataset
    /\ calls' = <<>>
    /\ ncalls' = 0
    /\ evals' = <<>>
    /\ merged' = <<>>
    /\ result' = NoResult
    /\ UNCHANGED failure

\* The inputs: time values, altitude sequences, latitude/longitude arrays
TimeSingles ==
    {TimeVal("str", "", 80, 0), TimeVal("datetime", "", 80, 43200),
     TimeVal("date", "", 80, 0), TimeVal("datetime64", "D", 80, 0),
     TimeVal("datetime64", "us", 80, 43200), TimeVal("int", "", 0, 0)}

ListOf(items) == [kind |-> "list", items |-> items]

\* Lists of datetimes of one day: all at midnight, or alternating between
\* midnight and noon starting with either; and lists of one element
Alternating(n, first) ==
    [m \in 1..n |-> Datetime(80, IF m % 2 = 1 THEN first ELSE 43200 - first)]

TimeLists ==
    {ListOf(Alternating(n, first)) : n \in 0..MaxTimes, first \in {0, 43200}}
    \cup {ListOf([m \in 1..n |-> Datetime(80, 0)]) : n \in 0..MaxTimes}
    \cup {ListOf(<<t>>) : t \in {TimeVal("str", "", 80, 0), TimeVal("date", "", 80, 0),
                                 TimeVal("datetime64", "D", 80, 0)}}

TimeInputs == TimeSingles \cup TimeLists

AltAt(k) == IF k % 2 = 1 THEN 100 * (k + 1) ELSE 100 * (k - 1)

AltInputs ==
    {[ndim |-> 0, data |-> <<100>>]}
    \cup {[ndim |-> 1, data |-> [k \in 1..n |-> AltAt(k)]] : n \in 0..MaxAlt}

Matrix(r, c, v, dr, dc) ==
    [i \in 1..r |-> [j \in 1..c |-> v + dr * (i - 1) + dc * (j - 1)]]

Shapes == (1..MaxRows) \X (1..MaxCols)

\* Latitudes constant or growing down the rows; a scalar; a 3-D single
LatInputs ==
    {[ndim |-> 2, dtype |-> d, rows |-> Matrix(sh[1], sh[2], 10, dr, 0)] :
        d \in {"int", "float"}, sh \in Shapes, dr \in {0, 10}}
    \cup {[ndim |-> n, dtype |-> d, rows |-> Matrix(1, 1, 10, 0, 0)] :
        n \in {0, 3}, d \in {"int", "float"}}

\* Longitudes constant or growing along the columns, of the latitude's
\* shape, its transpose or one element, and for a single latitude also of
\* the largest shape; a scalar
LonShapes(glat) ==
    ({<<NRows(glat), NCols(glat)>>, <<NCols(glat), NRows(glat)>>, <<1, 1>>}
     \cup (IF Size(glat) = 1 THEN {<<MaxRows, MaxCols>>} ELSE {})) \cap Shapes

LonInputs(glat) ==
    {[ndim |-> 2, dtype |-> d, rows |-> Matrix(sh[1], sh[2], 30, 0, dc)] :
        d \in {"int", "float"}, sh \in LonShapes(glat), dc \in {0, 10}}
    \cup {[ndim |-> 0, dtype |-> d, rows |-> Matrix(1, 1, 30, 0, 0)] :
        d \in {"int", "float"}}

\* run(time, altkm, glat, glon)
RunQueries ==
    {[time |-> t, altkm |-> a, glat |-> la, glon |-> lo] :
        t \in TimeInputs, a \in AltInputs,
        <<la, lo>> \in {<<x, y>> \in LatInputs \X UNION {LonInputs(g) : g \in LatInputs} :
                            y \in LonInputs(x)}}

\* rungtd1d(time, altkm, glat, glon) with Python's own numbers
PointQueries ==
    {[time |-> t, altkm |-> a, glat |-> la, glon |-> lo] :
        t \in TimeInputs, a \in AltInputs,
        la \in {[dtype |-> d, v |-> 10] : d \in {"int", "float"}},
        lo \in {[dtype |-> d, v |-> 30] : d \in {"int", "float"}}}

Init ==
    /\ entry \in {"run", "rungtd1d"}
    /\ args \in IF entry = "run" THEN RunQueries ELSE PointQueries
    /\ pc = entry
    /\ path = ""
    /\ loc = NoLoc
    /\ ev = IF entry = "rungtd1d"
            THEN Frame(args.time, args.altkm, args.glat, args.glon)
            ELSE NoEv
    /\ atm = Unbound
    /\ atmos = EmptyDataset
    /\ calls = <<>>
    /\ ncalls = 0
    /\ failure = ""
    /\ evals = <<>>
    /\ merged = <<>>
    /\ result = NoResult
    /\ fast = NoResult

Next ==
    \/ run
    \/ loopalt_gtd
    \/ loop_call
    \/ loop_merge
    \/ loop_exit
    \/ rungtd1d
    \/ getApF107_raises
    \/ getApF107_returns
    \/ driver_exits
    \/ driver_prints
    \/ rungtd1d_return
    \/ rerun_grid

Spec == Init /\ [][Next]_vars

\* ================================================================ claims
Terminal == pc \in {"returned", "raised"}

\* The number of elements of a latitude/longitude input
Elements(g) == Len(g.rows) * Len(g.rows[1])

\* C1: with no external failure, the grid path called with the element as
\* 1x1 grids and the instant as a length-1 sequence ends exactly as the
\* fast path did: the same dataset (variables, values, coordinates,
\* attributes), or the same error.
C1_FastEqualsGrid ==
    (entry = "loopalt_gtd" /\ Terminal /\ failure = "") => result = fast

C1_Witness ==
    /\ entry = "loopalt_gtd"
    /\ pc = "returned"
    /\ fast.status = "returned"
    /\ Len(fast.ds.coords.alt_km) = 1
    /\ merged # <<>>

\* C2: run takes the fast path exactly when the coerced latitude and
\* longitude hold one element each and the time is a single str, date,
\* datetime or datetime64; the fast path never enters the loop, the grid
\* path returns only through it, and no external call is made by the time
\* the path is chosen.
C2_Dispatch ==
    (entry = "run" /\ pc # "run") =>
        /\ path = "fast" <=>
              /\ Elements(args.glat) = 1
              /\ Elements(args.glon) = 1
              /\ args.time.kind \in {"str", "date", "datetime", "datetime64"}
        /\ path \in {"fast", "grid"}
        /\ path = "fast" => evals = <<>> /\ merged = <<>> /\ ~atm.bound
        /\ (path = "grid" /\ pc = "returned") => evals # <<>>
        /\ (path = "fast" /\ pc = "rungtd1d") => ncalls = 0
        /\ pc = "loopalt_gtd" => ncalls = 0

C2_Witness ==
    /\ entry = "run"
    /\ path = "grid"
    /\ Elements(args.glat) = 1
    /\ Elements(args.glon) = 1
    /\ pc = "returned"

ShapeOf(g) == <<Len(g.rows), Len(g.rows[1])>>

\* C3: when the coerced latitude and longitude (of floats) disagree in
\* shape, run raises and has made no external call.
C3_ShapeMismatchFailsFast ==
    (/\ entry = "run"
     /\ args.glat.dtype = "float" /\ args.glon.dtype = "float"
     /\ ShapeOf(args.glat) # ShapeOf(args.glon)) =>
        /\ ncalls = 0
        /\ Terminal => result.status = "raised"

\* C4: once a provider fetch, a driver invocation or the parse of a
\* driver output has failed, the invocation has raised: it returns no
\* dataset, the failed call is the last external call and was made once.
C4_AllOrNothing ==
    failure # "" =>
        /\ pc = "raised"
        /\ result.status = "raised"
        /\ result.ds = EmptyDataset
        /\ calls # <<>>
        /\ calls[Len(calls)].outcome = (IF failure = "getApF107" THEN "error"
                                        ELSE IF failure = "exit" THEN "exit"
                                        ELSE "output")
        /\ \A n \in 1..(Len(calls) - 1) : calls[n].args # calls[Len(calls)].args

C4_Witness ==
    /\ failure = "malformed"
    /\ pc = "raised"
    /\ Len(merged) >= 1
    /\ Len(ev.dens) >= 1

C5_ExpectedCall(n) ==
    IF n = 1 THEN [fn |-> "getApF107", args |-> <<ev.dtime>>, outcome |-> "ok"]
    ELSE [fn |-> "driver",
          args |-> <<ev.dtime.date, ev.dtime.tod \div 3600,
                     (ev.dtime.tod % 3600) \div 60, ev.dtime.tod % 60,
                     ev.glat.v, ev.glon.v,
                     <<"f107s", ev.dtime>>, <<"f107s", ev.dtime>>, <<"Ap", ev.dtime>>,
                     ev.altkm.data[n - 1]>>,
          outcome |-> "output"]

\* C5: one rungtd1d invocation fetches the driving parameters once, first,
\* then invokes the driver once per altitude in the order supplied, each
\* time with the instant's fields, the latitude, the longitude, the
\* smoothed flux in both flux slots, Ap and the altitude.
C5_CallSequence ==
    /\ pc = "driver" =>
          /\ Len(calls) = 1 + Len(ev.dens)
          /\ \A n \in 1..Len(calls) : calls[n] = C5_ExpectedCall(n)
    /\ (pc = "merge" \/ (pc = "returned" /\ ~InLoop)) =>
          /\ Len(calls) = 1 + Len(ev.altkm.data)
          /\ \A n \in 1..Len(calls) : calls[n] = C5_ExpectedCall(n)

C5_Witness ==
    /\ pc = "returned"
    /\ ~InLoop
    /\ Len(ev.altkm.data) >= 2
    /\ Len(calls) = 1 + Len(ev.altkm.data)

C6_Times == IF args.time.kind = "list" THEN args.time.items ELSE <<args.time>>
C6_R == Len(args.glat.rows)
C6_C == Len(args.glat.rows[1])

C6_ExpectedEval(n) ==
    LET k == (n - 1) \div (C6_R * C6_C)
        i == ((n - 1) % (C6_R * C6_C)) \div C6_C
        j == (n - 1) % C6_C
    IN  [time |-> C6_Times[k + 1],
         glat |-> args.glat.rows[i + 1][j + 1],
         glon |-> IF InBounds(args.glon, i, j) THEN args.glon.rows[i + 1][j + 1] ELSE -1,
         altkm |-> args.altkm]

\* C6: loopalt_gtd calls rungtd1d once per (time, row, col), times outermost
\* in input order and the cells row-major inside, with latitude[row, col],
\* longitude[row, col] and the whole altitude input; each fragment is merged
\* before the next call; a returned dataset saw T*R*C calls and carries the
\* attributes of the last fragment.
C6_SweepOrder ==
    InLoop =>
        /\ Len(evals) <= Len(C6_Times) * C6_R * C6_C
        /\ \A n \in 1..Len(evals) : evals[n] = C6_ExpectedEval(n)
        /\ pc \in {"rungtd1d", "getApF107", "driver", "merge"} =>
              Len(evals) = Len(merged) + 1
        /\ pc \in {"loopalt_gtd", "loop", "returned"} => Len(evals) = Len(merged)
        /\ Len(merged) <= Len(evals)
        /\ \A n \in 1..Len(merged) :
              merged[n] = <<todatetime(evals[n].time), evals[n].glat, evals[n].glon>>
        /\ pc = "returned" =>
              /\ Len(evals) = Len(C6_Times) * C6_R * C6_C
              /\ result.ds.attrs =
                    [Ap |-> <<"Ap", todatetime(evals[Len(evals)].time)>>,
                     f107 |-> <<"f107", todatetime(evals[Len(evals)].time)>>,
                     f107a |-> <<"f107s", todatetime(evals[Len(evals)].time)>>,
                     species |-> species]

\* two instants, a 2x2 grid that is a proper mesh, all eight cells visited
C6_Witness ==
    /\ InLoop
    /\ pc = "returned"
    /\ Len(C6_Times) = 2
    /\ C6_Times[1] # C6_Times[2]
    /\ C6_R = 2 /\ C6_C = 2
    /\ args.glat.rows[1][1] # args.glat.rows[2][1]
    /\ args.glon.rows[1][1] # args.glon.rows[1][2]
    /\ Len(evals) = 8

C7_Keys == Range(merged)

C7_Value(name, key, a) ==
    LET arg == <<key[1].date, key[1].tod \div 3600, (key[1].tod % 3600) \div 60,
                 key[1].tod % 60, key[2], key[3],
                 <<"f107s", key[1]>>, <<"f107s", key[1]>>, <<"Ap", key[1]>>, a>>
    IN  IF name = "Texo" THEN <<2, 1, arg>>
        ELSE IF name = "Tn" THEN <<2, 2, arg>>
        ELSE <<1, Position(species, name), arg>>

C7_AxisIs(axis, S) == Range(axis) = S /\ Len(axis) = Cardinality(S)

\* C7: after the merges so far, the time, lat and lon axes hold exactly the
\* distinct values of the merged fragments, each once; alt_km is the
\* altitude sequence of the call; every cell of a merged (time, lat, lon)
\* holds the value the driver gives for it and every other cell is empty;
\* no merge fails.
C7_MergedAxes ==
    /\ result.error # "MergeError"
    /\ (InLoop /\ merged # <<>>) =>
          /\ DOMAIN atmos.data = VarNames
          /\ C7_AxisIs(atmos.coords.time, {key[1] : key \in C7_Keys})
          /\ C7_AxisIs(atmos.coords.lat, {key[2] : key \in C7_Keys})
          /\ C7_AxisIs(atmos.coords.lon, {key[3] : key \in C7_Keys})
          /\ atmos.coords.alt_km = args.altkm.data
          /\ \A name \in VarNames : \A ix \in Cells(atmos.coords) :
                LET key == <<atmos.coords.time[ix[1]], atmos.coords.lat[ix[3]],
                             atmos.coords.lon[ix[4]]>>
                IN  atmos.data[name][ix] =
                        IF key \in C7_Keys
                        THEN C7_Value(name, key, atmos.coords.alt_km[ix[2]])
                        ELSE NaN

\* an axis was extended, a slot was written twice, a cell stayed empty
C7_Witness ==
    /\ InLoop
    /\ pc = "loop"
    /\ merged # <<>>
    /\ Len(atmos.coords.lon) = 2
    /\ Len(atmos.coords.time) = 2
    /\ Len(merged) > Cardinality(C7_Keys)
    /\ \E ix \in Cells(atmos.coords) : atmos.data["He"][ix] = NaN
    /\ \E ix \in Cells(atmos.coords) : atmos.data["He"][ix] # NaN

C8_Fragment == IF InLoop THEN atm.ds ELSE result.ds

\* C8: the fragment of one rungtd1d invocation holds, at [0, k, 0, 0] of
\* each species, the value at the species' position in the first record of
\* the driver's output for altitude k, of Texo the first and of Tn the
\* second value of the second record; its coordinates are the instant, the
\* altitudes, the latitude and the longitude; its variables are the nine
\* species, Texo and Tn.
C8_FragmentContent ==
    (pc = "merge" \/ (pc = "returned" /\ ~InLoop)) =>
        /\ DOMAIN C8_Fragment.data =
              {"He", "O", "N2", "O2", "Ar", "Total", "H", "N", "AnomalousO", "Texo", "Tn"}
        /\ C8_Fragment.coords.time = <<todatetime(ev.time)>>
        /\ C8_Fragment.coords.alt_km = ev.altkm.data
        /\ C8_Fragment.coords.lat = <<ev.glat.v>>
        /\ C8_Fragment.coords.lon = <<ev.glon.v>>
        /\ \A k \in 1..Len(ev.altkm.data) :
              /\ calls[k + 1].args[10] = ev.altkm.data[k]
              /\ \A p \in 1..9 :
                    C8_Fragment.data[species[p]][<<1, k, 1, 1>>] = <<1, p, calls[k + 1].args>>
              /\ C8_Fragment.data["Texo"][<<1, k, 1, 1>>] = <<2, 1, calls[k + 1].args>>
              /\ C8_Fragment.data["Tn"][<<1, k, 1, 1>>] = <<2, 2, calls[k + 1].args>>
        /\ \A name \in DOMAIN C8_Fragment.data :
              DOMAIN C8_Fragment.data[name] = {<<1, k, 1, 1>> : k \in 1..Len(ev.altkm.data)}
        /\ species = <<"He", "O", "N2", "O2", "Ar", "Total", "H", "N", "AnomalousO">>

C8_Witness ==
    /\ pc = "merge"
    /\ Len(ev.altkm.data) >= 2
    /\ args.altkm.ndim = 1

C9_Single(t) == t.kind \in {"str", "date", "datetime", "datetime64"}
C9_Accepted(t) ==
    \/ C9_Single(t)
    \/ (t.kind = "list" /\ Len(t.items) = 1 /\ C9_Single(t.items[1]))
C9_Instant(t) ==
    LET x == IF t.kind = "list" THEN t.items[1] ELSE t
    IN  [kind |-> "datetime", unit |-> "", date |-> x.date,
         tod |-> IF x.kind = "date" THEN 0 ELSE x.tod]

\* C9: todatetime gives one instant for a string, a date, a datetime (a
\* datetime64 counted as one) or a length-1 sequence of these, midnight for
\* a bare date; it raises TypeError only for other types, and then before
\* any external call.
C9_SingleInstantCoercion ==
    /\ result.error = "TypeError" => (~C9_Accepted(ev.time) /\ calls = <<>>)
    /\ (pc = "getApF107" /\ C9_Accepted(ev.time)) => ev.dtime = C9_Instant(ev.time)
    /\ (pc = "getApF107" /\ ev.time.kind # "list") => C9_Accepted(ev.time)

\* C10: every rungtd1d call that run makes passes rungtd1d's assertions:
\* a 1-D altitude, and a latitude and a longitude that are int or float.
C10_AssertionsPass ==
    (entry # "rungtd1d" /\ pc = "getApF107") =>
        /\ atleast_1d_alt(ev.altkm).ndim = 1
        /\ IsIntOrFloat(ev.glat)
        /\ IsIntOrFloat(ev.glon)

====
